---- MODULE Spec2Model ----
(***************************************************************************)
(* Model of src/jobs/scan_job.py: the ScanJob.run orchestration (one job   *)
(* invocation, statement by statement), the description hook               *)
(* get_succeeded_description, and the concurrent use of the process-wide   *)
(* cache region and of the MutexLock reader/writer lock by several job     *)
(* threads in several processes.                                           *)
(***************************************************************************)
EXTENDS Integers, Sequences, FiniteSets, TLC

\* ---------------------------------------------------------------- bounds
MaxVideos == 2
MaxSubs == 1
MaxSections == 1
MaxThreads == 2
MaxRuns == 1

\* ------------------------------------------------------------ input sets
Langs == {"eng", "fra"}
ScanAges == {0, 1}
WorkerCounts == {0, 1}
Providers == {"opensubtitles"}
Encodings == {"utf8", "nope"}
PidSet == {7, 31}
Procs == {"p1", "p2"}
\* MaxThreads job threads in the scheduler process p1, one in a second process
Threads == ({"p1"} \X (1..MaxThreads)) \cup {<<"p2", 1>>}

EmptyTree == <<>>
None == "None"

VARIABLES
    \* ---- one invocation of ScanJob.run
    pc, error, args,
    encoding, plex, plexConnections,
    region_configured, configureCalls,
    scanCalls, scanned_videos, idx, subtitle_languages,
    videos, ignored_videos, result,
    poolAcquired, poolReleased, poolQueries, dlIdx, downloaded_subtitles,
    saveIdx, total_subtitles, filesWritten, saveCalls,
    video, sectionsLeft, item_found, matches, refreshCalls,
    \* ---- job threads sharing the cache region and its lock
    tpc, runs, is_configured, configured, reconfigured, async_, current_sync

jobVars == <<pc, error, args, encoding, plex, plexConnections,
             region_configured, configureCalls, scanCalls, scanned_videos, idx,
             subtitle_languages, videos, ignored_videos, result,
             poolAcquired, poolReleased, poolQueries, dlIdx, downloaded_subtitles,
             saveIdx, total_subtitles, filesWritten, saveCalls,
             video, sectionsLeft, item_found, matches, refreshCalls>>

inputVars == <<args>>
prepVars == <<encoding, plex, plexConnections>>
regionVars == <<region_configured, configureCalls>>
scanVars == <<scanCalls, scanned_videos, idx, subtitle_languages, videos, ignored_videos>>
poolVars == <<poolAcquired, poolReleased, poolQueries, dlIdx, downloaded_subtitles>>
saveVars == <<saveIdx, total_subtitles, filesWritten, saveCalls>>
loopVars == <<video, sectionsLeft, item_found, matches, refreshCalls>>

concVars == <<tpc, runs, is_configured, configured, reconfigured, async_, current_sync>>

vars == <<jobVars, concVars>>

\* ------------------------------------------------------------- helpers
Range(s) == {s[i] : i \in 1..Len(s)}

\* %s / str() of a non-negative integer: its decimal digits
Digit(d) == CASE d = 0 -> "0" [] d = 1 -> "1" [] d = 2 -> "2" [] d = 3 -> "3"
              [] d = 4 -> "4" [] d = 5 -> "5" [] d = 6 -> "6" [] d = 7 -> "7"
              [] d = 8 -> "8" [] d = 9 -> "9"

RECURSIVE Str(_)
Str(n) == IF n < 10 THEN <<Digit(n)>> ELSE Str(n \div 10) \o <<Digit(n % 10)>>

\* result = __tree_dict(): a leaf is <<>> while it was never assigned and <<x>>
\* once x was stored.  Reading a leaf that was never assigned yields a new
\* empty tree, and str() of that is not a number
TreeGet(r, key) == IF r[key] = <<>> THEN EmptyTree ELSE r[key]

StrValue(v) == IF v = EmptyTree THEN <<"defaultdict(<function <lambda>>, {})">> ELSE Str(v[1])

get_succeeded_description(p, r) ==
    <<"pid: ">> \o Str(p) \o <<" | downloaded: ">> \o StrValue(TreeGet(r, "total"))

\* codecs.lookup(encoding).name
CodecKnown(e) == e \in {"utf8", "utf-8"}
CodecName(e) == IF e \in {"utf8", "utf-8"} THEN "utf-8" ELSE e

\* ------------------------------------------------ parameter validation
\* variant: the max_workers test of lines 93-94 left out
ValidationErrorNoWorkers(a) ==
    IF ~a.scan_path_isdir THEN "IOError"
    ELSE IF ~(a.scan_age >= 1) THEN "ValueError"
    ELSE IF ~(Cardinality(a.languages) >= 1) THEN "ValueError"
    ELSE IF a.providers = {} THEN "ValueError"
    ELSE None

\* lines 85-94: the first violated precondition raises
ValidationError(a) ==
    IF ~a.scan_path_isdir THEN "IOError"
    ELSE IF ~(a.scan_age >= 1) THEN "ValueError"
    ELSE IF ~(Cardinality(a.languages) >= 1) THEN "ValueError"
    ELSE IF a.providers = {} THEN "ValueError"
    ELSE IF ~(a.max_workers >= 1) THEN "ValueError"
    ELSE None

EmptyResult == [collected |-> <<>>, ignored |-> <<>>, total |-> <<>>,
                refreshed |-> <<>>, failed |-> <<>>]

JobInit ==
    /\ pc = "validate"
    /\ error = None
    /\ args \in [scan_path_isdir : BOOLEAN, scan_age : ScanAges,
                 languages : SUBSET Langs, encoding : Encodings,
                 providers : SUBSET Providers, max_workers : WorkerCounts,
                 plex_url : BOOLEAN, plex_token : BOOLEAN]
    /\ encoding = None
    /\ plex = FALSE
    /\ plexConnections = 0
    /\ region_configured \in BOOLEAN
    /\ configureCalls = 0
    /\ scanCalls = 0
    /\ scanned_videos = 0
    /\ idx = 1
    /\ subtitle_languages = [v \in 1..MaxVideos |-> {}]
    /\ videos = <<>>
    /\ ignored_videos = <<>>
    /\ result = EmptyResult
    /\ poolAcquired = 0
    /\ poolReleased = 0
    /\ poolQueries = 0
    /\ dlIdx = 1
    /\ downloaded_subtitles = <<>>
    /\ saveIdx = 1
    /\ total_subtitles = 0
    /\ filesWritten = 0
    /\ saveCalls = 0
    /\ matches = 0
    /\ refreshCalls = 0
    /\ video = [id |-> 0, kind |-> None]
    /\ sectionsLeft = 0
    /\ item_found = FALSE

ConcIdle ==
    /\ tpc = [t \in Threads |-> "idle"]
    /\ runs = [t \in Threads |-> 0]
    /\ is_configured = [p \in Procs |-> FALSE]
    /\ configured = [p \in Procs |-> 0]
    /\ reconfigured = [p \in Procs |-> FALSE]
    /\ async_ = [p \in Procs |-> 0]
    /\ current_sync = [p \in Procs |-> None]

Init == JobInit /\ ConcIdle

Fail(e) == pc' = "failed" /\ error' = e

\* lines 84-94
Validate ==
    /\ pc = "validate"
    /\ IF ValidationError(args) # None
         THEN Fail(ValidationError(args))
         ELSE pc' = "prepare" /\ error' = error
    /\ UNCHANGED <<inputVars, prepVars, regionVars, scanVars, result, poolVars,
                   saveVars, loopVars, concVars>>

\* lines 96-113: codecs.lookup raises LookupError for an unknown encoding;
\* PlexServer(...) connects when both url and token are given and may raise
Prepare ==
    /\ pc = "prepare"
    /\ IF ~CodecKnown(args.encoding)
         THEN /\ Fail("LookupError")
              /\ UNCHANGED prepVars
         ELSE /\ encoding' = CodecName(args.encoding)
              /\ IF args.plex_url /\ args.plex_token
                   THEN /\ plexConnections' = plexConnections + 1
                        /\ \/ plex' = TRUE /\ pc' = "cache" /\ error' = error
                           \/ plex' = FALSE /\ Fail("PlexError")
                   ELSE /\ UNCHANGED <<plex, plexConnections>>
                        /\ pc' = "cache" /\ error' = error
    /\ UNCHANGED <<inputVars, regionVars, scanVars, result, poolVars,
                   saveVars, loopVars, concVars>>

\* lines 115-116
ConfigureCache ==
    /\ pc = "cache"
    /\ IF ~region_configured
         THEN region_configured' = TRUE /\ configureCalls' = configureCalls + 1
         ELSE UNCHANGED regionVars
    /\ pc' = "scan"
    /\ UNCHANGED <<error, inputVars, prepVars, scanVars, result, poolVars,
                   saveVars, loopVars, concVars>>

\* line 119: scan_videos returns the videos found under scan_path, or raises
ScanVideos ==
    /\ pc = "scan"
    /\ scanCalls' = scanCalls + 1
    /\ \/ \E n \in 0..MaxVideos :
             /\ scanned_videos' = n
             /\ pc' = IF n = 0 THEN "report" ELSE "classify"
             /\ error' = error
       \/ Fail("IOError") /\ UNCHANGED scanned_videos
    /\ UNCHANGED <<inputVars, prepVars, regionVars, idx, subtitle_languages,
                   videos, ignored_videos, result, poolVars, saveVars,
                   loopVars, concVars>>

\* subliminal.check_video(video, languages=languages, age=age, undefined=False)
check_video(subs, languages, tooOld) ==
    IF languages # {} /\ languages \ subs = {} THEN FALSE
    ELSE IF tooOld THEN FALSE
    ELSE TRUE

\* variant: the test of line 125 left out, every video that passes check_video
\* is collected
ClassifyVideoNoRecheck(embedded, external, tooOld, refined, languages) ==
    LET merged == embedded \cup external
    IN  IF check_video(merged, languages, tooOld)
          THEN [subs |-> merged \cup refined, collect |-> TRUE, ignore |-> FALSE]
          ELSE [subs |-> merged, collect |-> FALSE, ignore |-> TRUE]

\* variant: the `else` of line 129 left out, line 130 runs for every video
ClassifyVideoNoElse(embedded, external, tooOld, refined, languages) ==
    LET merged == embedded \cup external
    IN  IF check_video(merged, languages, tooOld)
          THEN LET subs == merged \cup refined
               IN  IF languages \ subs # {}
                     THEN [subs |-> subs, collect |-> TRUE, ignore |-> TRUE]
                     ELSE [subs |-> subs, collect |-> FALSE, ignore |-> TRUE]
          ELSE [subs |-> merged, collect |-> FALSE, ignore |-> TRUE]

\* lines 122-130 for one video: the languages it ends with and the list it
\* is appended to
ClassifyVideo(embedded, external, tooOld, refined, languages) ==
    LET merged == embedded \cup external
    IN  IF check_video(merged, languages, tooOld)
          THEN LET subs == merged \cup refined
               IN  IF languages \ subs # {}
                     THEN [subs |-> subs, collect |-> TRUE, ignore |-> FALSE]
                     ELSE [subs |-> subs, collect |-> FALSE, ignore |-> TRUE]
          ELSE [subs |-> merged, collect |-> FALSE, ignore |-> TRUE]

\* lines 121-130: one iteration of the classification loop
Classify ==
    /\ pc = "classify"
    /\ idx <= scanned_videos
    /\ \E embedded \in SUBSET Langs, external \in SUBSET Langs,
          tooOld \in BOOLEAN, refined \in SUBSET Langs :
          LET c == ClassifyVideo(embedded, external, tooOld, refined, args.languages)
          IN  /\ subtitle_languages' = IF c.collect
                                         THEN [subtitle_languages EXCEPT ![idx] = c.subs]
                                         ELSE subtitle_languages
              /\ videos' = IF c.collect THEN Append(videos, idx) ELSE videos
              /\ ignored_videos' = IF c.ignore THEN Append(ignored_videos, idx)
                                   ELSE ignored_videos
    /\ idx' = idx + 1
    /\ pc' = IF idx + 1 > scanned_videos THEN "report" ELSE "classify"
    /\ UNCHANGED <<error, inputVars, prepVars, regionVars, scanCalls, scanned_videos,
                   result, poolVars, saveVars, loopVars, concVars>>

\* lines 132-137
Report ==
    /\ pc = "report"
    /\ result' = [result EXCEPT
                    !.collected = IF videos # <<>> THEN <<videos>> ELSE @,
                    !.ignored = IF ignored_videos # <<>> THEN <<Len(ignored_videos)>> ELSE @]
    /\ pc' = IF videos # <<>> THEN "pool_enter" ELSE "finish"
    /\ UNCHANGED <<error, inputVars, prepVars, regionVars, scanVars, poolVars,
                   saveVars, loopVars, concVars>>

\* line 140: entering the `with AsyncProviderPool(...) as p` block
PoolEnter ==
    /\ pc = "pool_enter"
    /\ poolAcquired' = poolAcquired + 1
    /\ pc' = "download"
    /\ UNCHANGED <<error, inputVars, prepVars, regionVars, scanVars, result,
                   poolReleased, poolQueries, dlIdx, downloaded_subtitles,
                   saveVars, loopVars, concVars>>

\* variant: the pool is terminated by hand at the end of the block only
ExitOnErrorLeak(released) == released

\* the `with` statement calls __exit__ when the block is left by an exception
ExitOnError(released) == released + 1

\* the `with` statement calls __exit__ when the block ends normally
ExitOnSuccess(released) == released + 1

\* lines 141-144: one iteration of the download loop; list_subtitles or
\* download_best_subtitles may raise, which leaves the `with` block
Download ==
    /\ pc = "download"
    /\ dlIdx <= Len(videos)
    /\ poolQueries' = poolQueries + 1
    /\ \/ /\ \E n \in 0..MaxSubs :
               downloaded_subtitles' = Append(downloaded_subtitles, n)
          /\ dlIdx' = dlIdx + 1
          /\ pc' = IF dlIdx + 1 > Len(videos) THEN "pool_exit" ELSE "download"
          /\ UNCHANGED <<error, poolReleased>>
       \/ /\ poolReleased' = ExitOnError(poolReleased)
          /\ Fail("ProviderError")
          /\ UNCHANGED <<dlIdx, downloaded_subtitles>>
    /\ UNCHANGED <<inputVars, prepVars, regionVars, scanVars, result, poolAcquired,
                   saveVars, loopVars, concVars>>

\* lines 146-150: end of the `with` block, then total_subtitles = 0
PoolExit ==
    /\ pc = "pool_exit"
    /\ poolReleased' = ExitOnSuccess(poolReleased)
    /\ total_subtitles' = 0
    /\ saveIdx' = 1
    /\ pc' = "save"
    /\ UNCHANGED <<error, inputVars, prepVars, regionVars, scanVars, result,
                   poolAcquired, poolQueries, dlIdx, downloaded_subtitles,
                   filesWritten, saveCalls, loopVars, concVars>>

\* ---------------------------------------------------- media-server lookup
\* what one library section holds for the video being looked up
SectionViews ==
    {[type |-> "other", raises |-> FALSE, items |-> 0, episodes |-> 0]}
    \cup [type : {"movie"}, raises : {TRUE}, items : {0}, episodes : {0}]
    \cup [type : {"movie"}, raises : {FALSE}, items : 0..2, episodes : {0}]
    \cup [type : {"show"}, raises : {TRUE}, items : {0}, episodes : {0}]
    \cup [type : {"show"}, raises : {FALSE}, items : {0}, episodes : {0}]
    \cup [type : {"show"}, raises : {FALSE}, items : {1}, episodes : 0..2]

\* section.search(..., maxresults=1)[0]: NotFound raised by the client, the
\* first hit, or IndexError when the returned list is empty
SearchFirst(sec) ==
    IF sec.raises THEN "NotFound"
    ELSE IF sec.items = 0 THEN "IndexError"
    ELSE "item"

\* lines 162-174: the try block for one section
PlexLookup(kind, sec) ==
    IF sec.type = "movie" /\ kind = "movie"
      THEN SearchFirst(sec)
    ELSE IF sec.type = "show" /\ kind = "episode"
      THEN IF SearchFirst(sec) # "item" THEN SearchFirst(sec)
           ELSE IF sec.episodes # 1 THEN "NotFound" ELSE "item"
    ELSE "continue"

\* the library holds exactly one item matching the video in this section
UnambiguousMatch(kind, sec) ==
    /\ ~sec.raises
    /\ sec.items = 1
    /\ \/ sec.type = "movie" /\ kind = "movie"
       \/ sec.type = "show" /\ kind = "episode" /\ sec.episodes = 1

\* line 153
AddSaved(total, saved, given) == total + saved

\* line 159
RefreshWanted(hasPlex, saved) == hasPlex /\ saved > 0

\* lines 151-161: one iteration of the save loop (the dict is read in
\* insertion order), up to the call of plex.library.sections()
SaveVideo ==
    /\ pc = "save"
    /\ saveIdx <= Len(videos)
    /\ LET i == saveIdx IN
         /\ saveIdx' = saveIdx + 1
         /\ saveCalls' = saveCalls + 1
         /\ \/ \* save_subtitles raises after writing some of the files
               /\ \E w \in 0..downloaded_subtitles[i] : filesWritten' = filesWritten + w
               /\ Fail("IOError")
               /\ UNCHANGED <<total_subtitles, loopVars>>
            \/ \E saved \in 0..downloaded_subtitles[i] :
                 /\ filesWritten' = filesWritten + saved
                 /\ total_subtitles' = AddSaved(total_subtitles, saved, downloaded_subtitles[i])
                 /\ IF RefreshWanted(plex, saved)
                      THEN \E kind \in {"movie", "episode"}, n \in 0..MaxSections :
                             /\ video' = [id |-> videos[i], kind |-> kind]
                             /\ sectionsLeft' = n
                             /\ item_found' = FALSE
                             /\ matches' = 0
                             /\ refreshCalls' = 0
                             /\ pc' = "refresh"
                             /\ error' = error
                      ELSE UNCHANGED <<pc, error, loopVars>>
    /\ UNCHANGED <<inputVars, prepVars, regionVars, scanVars, result, poolVars, concVars>>

\* lines 161-179: one iteration of the loop over the sections; only NotFound
\* is caught, IndexError leaves run
RefreshSection ==
    /\ pc = "refresh"
    /\ sectionsLeft > 0
    /\ sectionsLeft' = sectionsLeft - 1
    /\ \E sec \in SectionViews :
         LET r == PlexLookup(video.kind, sec)
         IN  /\ matches' = IF UnambiguousMatch(video.kind, sec)
                               THEN matches + 1 ELSE matches
             /\ IF r = "IndexError"
                  THEN /\ Fail("IndexError")
                       /\ UNCHANGED <<refreshCalls, result, item_found>>
                  ELSE IF r = "item"
                  THEN /\ refreshCalls' = refreshCalls + 1
                       /\ result' = [result EXCEPT !.refreshed = Append(@, video.id)]
                       /\ item_found' = TRUE
                       /\ UNCHANGED <<pc, error>>
                  ELSE UNCHANGED <<pc, error, refreshCalls, result, item_found>>
    /\ UNCHANGED <<inputVars, prepVars, regionVars, scanVars, poolVars, saveVars,
                   video, concVars>>

\* line 181
RecordFailed(found) == ~found

\* lines 181-182, after the loop over the sections
RefreshEnd ==
    /\ pc = "refresh"
    /\ sectionsLeft = 0
    /\ result' = [result EXCEPT
                    !.failed = IF RecordFailed(item_found) THEN Append(@, video.id) ELSE @]
    /\ pc' = "save"
    /\ UNCHANGED <<error, inputVars, prepVars, regionVars, scanVars, poolVars, saveVars,
                   loopVars, concVars>>

\* line 184, after the save loop
SetTotal ==
    /\ pc = "save"
    /\ saveIdx > Len(videos)
    /\ result' = [result EXCEPT !.total = <<total_subtitles>>]
    /\ pc' = "finish"
    /\ UNCHANGED <<error, inputVars, prepVars, regionVars, scanVars, poolVars,
                   saveVars, loopVars, concVars>>

\* lines 186-190
Finish ==
    /\ pc = "finish"
    /\ pc' = "done"
    /\ UNCHANGED <<error, inputVars, prepVars, regionVars, scanVars, result, poolVars,
                   saveVars, loopVars, concVars>>

Next ==
    \/ Validate
    \/ Prepare
    \/ ConfigureCache
    \/ ScanVideos
    \/ Classify
    \/ Report
    \/ PoolEnter
    \/ Download
    \/ PoolExit
    \/ SaveVideo
    \/ RefreshSection
    \/ RefreshEnd
    \/ SetTotal
    \/ Finish

Spec == Init /\ [][Next]_vars

\* ------------------------------------------------------------------------
\* Several job threads in several processes run lines 115-116 and then reach
\* the cache through the lock the configured region built with
\* lock_factory=MutexLock.  Every process has its own region, and every
\* MutexLock its own ReadWriteMutex (line 27).
\* ------------------------------------------------------------------------
ProcOf(t) == t[1]

ConcInit ==
    /\ JobInit
    /\ args = [scan_path_isdir |-> TRUE, scan_age |-> 1, languages |-> {"eng"},
               encoding |-> "utf8", providers |-> Providers, max_workers |-> 1,
               plex_url |-> FALSE, plex_token |-> FALSE]
    /\ region_configured = FALSE
    /\ ConcIdle

\* the scheduler starts an invocation of run on a thread of a process
StartRun(t) ==
    /\ tpc[t] = "idle"
    /\ runs[t] < MaxRuns
    /\ runs' = [runs EXCEPT ![t] = @ + 1]
    /\ tpc' = [tpc EXCEPT ![t] = "check"]
    /\ UNCHANGED <<jobVars, is_configured, configured, reconfigured, async_, current_sync>>

\* line 115: the test `not region.is_configured`
CheckConfigured(t) ==
    /\ tpc[t] = "check"
    /\ tpc' = [tpc EXCEPT ![t] = IF ~is_configured[ProcOf(t)] THEN "configure" ELSE "cache"]
    /\ UNCHANGED <<jobVars, runs, is_configured, configured, reconfigured, async_, current_sync>>

\* line 116: region.configure(...); on a region that is configured already
\* it raises RegionAlreadyConfigured and the invocation fails
Configure(t) ==
    /\ tpc[t] = "configure"
    /\ configured' = [configured EXCEPT ![ProcOf(t)] = @ + 1]
    /\ IF is_configured[ProcOf(t)]
         THEN /\ reconfigured' = [reconfigured EXCEPT ![ProcOf(t)] = TRUE]
              /\ tpc' = [tpc EXCEPT ![t] = "idle"]
              /\ UNCHANGED is_configured
         ELSE /\ is_configured' = [is_configured EXCEPT ![ProcOf(t)] = TRUE]
              /\ tpc' = [tpc EXCEPT ![t] = "cache"]
              /\ UNCHANGED reconfigured
    /\ UNCHANGED <<jobVars, runs, async_, current_sync>>

\* variant: a reader that does not look at the writer
ReadNeverBlocked(sync) == FALSE

\* ReadWriteMutex.acquire_read_lock: a reader waits for (or gives up on) a
\* writer that holds or has announced itself
ReadBlocked(sync) == sync # None

\* line 30: the mutex's answer to a non-blocking attempt (None when waiting)
ReadRet(wait, sync) == IF wait THEN None ELSE IF ReadBlocked(sync) THEN FALSE ELSE TRUE

\* lines 31 and 35
Acquired(wait, ret) == IF wait THEN TRUE ELSE ret

\* lines 29-31
acquire_read_lock(t, wait) ==
    /\ tpc[t] = "cache"
    /\ wait => ~ReadBlocked(current_sync[ProcOf(t)])
    /\ LET ret == ReadRet(wait, current_sync[ProcOf(t)])
       IN  IF Acquired(wait, ret)
             THEN /\ async_' = [async_ EXCEPT ![ProcOf(t)] = @ + 1]
                  /\ tpc' = [tpc EXCEPT ![t] = "reading"]
             ELSE /\ tpc' = [tpc EXCEPT ![t] = "finish"]
                  /\ UNCHANGED async_
    /\ UNCHANGED <<jobVars, runs, is_configured, configured, reconfigured, current_sync>>

\* lines 37-38
release_read_lock(t) ==
    /\ tpc[t] = "reading"
    /\ async_' = [async_ EXCEPT ![ProcOf(t)] = @ - 1]
    /\ tpc' = [tpc EXCEPT ![t] = "finish"]
    /\ UNCHANGED <<jobVars, runs, is_configured, configured, reconfigured, current_sync>>

\* ReadWriteMutex.acquire_write_lock: a writer waits for (or gives up on)
\* another writer, announces itself, then waits for the readers to leave
WriteBlocked(sync) == sync # None

\* the announced writer may enter once no reader is left
ReadersGone(readers) == readers = 0

\* lines 33-35
acquire_write_lock(t, wait) ==
    /\ tpc[t] = "cache"
    /\ wait => ~WriteBlocked(current_sync[ProcOf(t)])
    /\ LET p == ProcOf(t)
           ret == IF wait THEN None
                  ELSE ~WriteBlocked(current_sync[p]) /\ ReadersGone(async_[p])
       IN  IF Acquired(wait, ret)
             THEN /\ current_sync' = [current_sync EXCEPT ![p] = t]
                  /\ tpc' = [tpc EXCEPT ![t] =
                               IF ReadersGone(async_[p]) THEN "writing" ELSE "announced"]
             ELSE /\ tpc' = [tpc EXCEPT ![t] = "finish"]
                  /\ UNCHANGED current_sync
    /\ UNCHANGED <<jobVars, runs, is_configured, configured, reconfigured, async_>>

\* lines 33-35, second half of a waiting acquire_write_lock: the last reader
\* to leave wakes the announced writer
WriterEnters(t) ==
    /\ tpc[t] = "announced"
    /\ ReadersGone(async_[ProcOf(t)])
    /\ tpc' = [tpc EXCEPT ![t] = "writing"]
    /\ UNCHANGED <<jobVars, runs, is_configured, configured, reconfigured, async_, current_sync>>

\* lines 40-41
release_write_lock(t) ==
    /\ tpc[t] = "writing"
    /\ current_sync' = [current_sync EXCEPT ![ProcOf(t)] = None]
    /\ tpc' = [tpc EXCEPT ![t] = "finish"]
    /\ UNCHANGED <<jobVars, runs, is_configured, configured, reconfigured, async_>>

\* the rest of run, lines 118-190
EndRun(t) ==
    /\ tpc[t] \in {"cache", "finish"}
    /\ tpc' = [tpc EXCEPT ![t] = "idle"]
    /\ UNCHANGED <<jobVars, runs, is_configured, configured, reconfigured, async_, current_sync>>

ConcNext ==
    \E t \in Threads :
        \/ StartRun(t)
        \/ CheckConfigured(t)
        \/ Configure(t)
        \/ \E wait \in BOOLEAN : acquire_read_lock(t, wait)
        \/ release_read_lock(t)
        \/ \E wait \in BOOLEAN : acquire_write_lock(t, wait)
        \/ WriterEnters(t)
        \/ release_write_lock(t)
        \/ EndRun(t)

ConcSpec == ConcInit /\ [][ConcNext]_vars

\* ------------------------------------------------------------------------
\* Properties
\* ------------------------------------------------------------------------
Count(seq, x) == Cardinality({i \in 1..Len(seq) : seq[i] = x})

\* the parameters violate at least one precondition of run
ViolatesPrecondition ==
    \/ ~args.scan_path_isdir
    \/ args.scan_age < 1
    \/ args.languages = {}
    \/ args.providers = {}
    \/ args.max_workers < 1

NoSideEffect ==
    /\ configureCalls = 0
    /\ scanCalls = 0
    /\ poolAcquired = 0
    /\ saveCalls = 0
    /\ filesWritten = 0
    /\ plexConnections = 0

\* C1: when the parameters violate a precondition, run gets no further than
\* the validation, it ends with an error, and the cache was not configured,
\* no directory was scanned, no pool acquired, no subtitle file written and no
\* media server contacted.
C1_FailsBeforeSideEffects ==
    ViolatesPrecondition =>
        /\ pc \in {"validate", "failed"}
        /\ pc = "failed" => error \in {"IOError", "ValueError"}
        /\ NoSideEffect

C1_Witness == ViolatesPrecondition /\ pc = "failed" /\ error = "ValueError"

\* C2: when run returns, result['subtitles']['total'] is the number of subtitle
\* files written during the run, also when no video was collected.
C2_TotalIsFilesWritten ==
    pc = "done" => TreeGet(result, "total") = <<filesWritten>>

\* C3: every video in the needs-subtitles list misses at least one requested
\* language, given the languages it has after merging and refinement.
C3_CollectedMissesLanguage ==
    \A i \in 1..Len(videos) : args.languages \ subtitle_languages[videos[i]] # {}

C3_Witness ==
    /\ pc = "report"
    /\ Len(ignored_videos) >= 1
    /\ \E i \in 1..Len(videos) : subtitle_languages[videos[i]] # {}

\* C4: no video is in both lists, no video is twice in a list, and every
\* video the classification loop has gone through is in one of them, so that
\* after the loop the two lengths add up to the number of scanned videos.
C4_Partition ==
    /\ Range(videos) \cap Range(ignored_videos) = {}
    /\ Cardinality(Range(videos)) = Len(videos)
    /\ Cardinality(Range(ignored_videos)) = Len(ignored_videos)
    /\ Range(videos) \cup Range(ignored_videos) = 1..(idx - 1)
    /\ pc \in {"report", "pool_enter", "download", "pool_exit", "save", "refresh",
               "finish", "done"}
          => Len(videos) + Len(ignored_videos) = scanned_videos

C4_Witness ==
    /\ pc = "report"
    /\ Len(videos) >= 1
    /\ Len(ignored_videos) >= 1
    /\ Len(videos) + Len(ignored_videos) = scanned_videos

\* a refresh was attempted for `video` and run is no longer in its loop over
\* the sections
RefreshOver == plex /\ video.id # 0 /\ pc # "refresh"

\* C5: a video for which a refresh was attempted is in the failed list exactly
\* when no section held an unambiguous match; with exactly one match there is
\* one refresh request, one success entry and no failed entry.
C5_RefreshRecorded ==
    RefreshOver =>
        /\ (Count(result.failed, video.id) >= 1) <=> (matches = 0)
        /\ matches = 1 => /\ refreshCalls = 1
                          /\ Count(result.refreshed, video.id) = 1
                          /\ Count(result.failed, video.id) = 0

\* C6: a lookup that finds nothing, or an ambiguous episode, never fails the
\* job: the video gets a failed-refresh entry and run goes on.
C6_LookupMissNotFatal ==
    /\ ~(pc = "failed" /\ error = "IndexError")
    /\ (RefreshOver /\ refreshCalls = 0) => Count(result.failed, video.id) = 1

\* C7: the pool is acquired at most once and never released more often than
\* acquired; the provider queries happen while it is held; and it has been
\* released exactly once before the subtitles are saved, before the media
\* server is refreshed, and when run has returned or failed.
C7_PoolReleasedOnce ==
    /\ poolAcquired <= 1
    /\ poolReleased <= poolAcquired
    /\ pc \in {"download", "pool_exit"} => poolAcquired = 1 /\ poolReleased = 0
    /\ poolQueries > 0 => poolAcquired = 1
    /\ pc \in {"save", "refresh", "finish", "done", "failed"} => poolReleased = poolAcquired

C7_Witness == pc = "failed" /\ error = "ProviderError" /\ poolAcquired = 1 /\ poolReleased = 1

Holds(t) == tpc[t] \in {"reading", "writing"}

\* C8 as stated: while a thread holds the write lock of the cache, no other
\* thread of any process holds its read or write lock.
C8_ExclusionAcrossProcesses ==
    \A t, u \in Threads : (t # u /\ tpc[t] = "writing") => ~Holds(u)

\* C8, amended: among the threads of one process, a writer excludes readers and
\* other writers, and a thread about to read is held up only by a writer that
\* holds or has announced itself, never by readers.
C8_ExclusionWithinProcess ==
    /\ \A t, u \in Threads :
          (t # u /\ ProcOf(t) = ProcOf(u) /\ tpc[t] = "writing") => ~Holds(u)
    /\ \A t \in Threads :
          (/\ tpc[t] = "cache"
           /\ \A u \in Threads : ProcOf(u) = ProcOf(t) => tpc[u] \notin {"writing", "announced"})
          => ENABLED acquire_read_lock(t, TRUE)

C8_Witness ==
    \E t, u \in Threads :
        /\ t # u
        /\ ProcOf(t) = ProcOf(u)
        /\ tpc[t] = "reading"
        /\ tpc[u] = "reading"
        /\ \E w \in Threads : ProcOf(w) # ProcOf(t) /\ tpc[w] = "writing"

\* C9: for the result of a successful run, the succeeded description is
\* 'pid: <pid> | downloaded: <n>' with n the decimal number of subtitles saved.
C9_DescriptionHasTotal ==
    pc = "done" =>
        \A p \in PidSet :
            get_succeeded_description(p, result)
                = <<"pid: ">> \o Str(p) \o <<" | downloaded: ">> \o Str(filesWritten)

\* C10: in every process, configure is called at most once and never on a
\* region that is configured already.
C10_ConfiguredOnce ==
    \A p \in Procs : configured[p] <= 1 /\ ~reconfigured[p]

====
